---------------------------- MODULE Spec2Model ----------------------------
(***************************************************************************)
(* Profile synchronization of oh-my-github/resume-generator.               *)
(*                                                                         *)
(* Two generations of the `profile` command are modelled over the same     *)
(* state:                                                                  *)
(*   Spec      the command of src/unnamed/part_000 (COMMAND_PROFILE and    *)
(*             its local createProfile): fetch, concat + dedup by          *)
(*             event_id, overwriteFile;                                    *)
(*   SpecSync  createProfile / Profile.updateMeta of                       *)
(*             src/generator/src/profile.ts, which rolls the previous      *)
(*             snapshot's _$meta forward.                                  *)
(* Both start a run by decoding the snapshot (MetaField.OnDeserialized).   *)
(***************************************************************************)
EXTENDS Integers, Sequences, FiniteSets, TLC

(* ------------------------------ bounds ------------------------------ *)

\* longest activity batch one fetch returns
MaxActs == 2
\* number of command runs (processes) in a behaviour
MaxRuns == 2
\* longest list of repositories to ignore passed to one run
MaxIgnores == 1

(* ------------------------------ values ------------------------------ *)

\* MetaField.PROFILE_SCHEMA_VERSION
PROFILE_SCHEMA_VERSION == 1

\* a JSON scalar read from the document: its JavaScript type and, for a number
\* or a string of digits, the number it shows
Undefined == [type |-> "undefined", num |-> 0]
Null == [type |-> "null", num |-> 0]
Num(n) == [type |-> "number", num |-> n]
Str(n) == [type |-> "string", num |-> n]
\* the empty string
EmptyStr == [type |-> "string", num |-> -1]

\* the values of _$meta.schema_version the documents of the model carry:
\* absent, null, 1, 2, "1", ""
RawVersions == {Undefined, Null, Num(PROFILE_SCHEMA_VERSION), Num(PROFILE_SCHEMA_VERSION + 1),
                Str(PROFILE_SCHEMA_VERSION), EmptyStr}

\* lodash _.isEmpty of a JSON scalar: true of undefined, null, every number and ""
isEmptyScalar(v) == v.type \in {"undefined", "null", "number"} \/ v = EmptyStr

\* event_id values: "undefined" is a missing event_id
EventIds == {"undefined", "e1", "e2"}
Payloads == {"p", "q"}
\* an activity entry without any field (null or {}): _.isEmpty of it is true
EMPTY_ACT == [event_id |-> "undefined", payload |-> "none"]
Events == [event_id : EventIds, payload : Payloads] \cup {EMPTY_ACT}

\* lodash _.isEmpty of an activity entry
isEmptyAct(a) == a.payload = "none"

Repos == {"repoA", "repoB"}

\* sequences over S of length at most n
SeqUpTo(S, n) == UNION {[1..k -> S] : k \in 0..n}

Range(s) == {s[i] : i \in 1..Len(s)}

\* the absent snapshot file, and a Profile that was never built
NoFile == [exists |-> FALSE]
NoProfile == [exists |-> FALSE]

\* timestamps are run numbers; 0 is an absent or empty timestamp
NoDate == 0

\* no merge of profile.ts has run yet
NotRolled == [merges |-> 0, collected_ats |-> <<>>, created_at |-> NoDate]

VARIABLES
  file,         \* the snapshot document on disk (oh-my-github.json), or NoFile
  now,          \* MetaField.CURRENT_DATE of the running process
  pc,           \* position of the running command
  options,      \* ProfileOptions of the run
  ignoredRepos, \* ignoredRepos argument of createProfile (profile.ts)
  prevProf,     \* the decoded previous snapshot
  githubUser, repos, langs, acts,  \* locals of createProfile
  currentProf,  \* the profile the run produced
  reported,     \* what the run printed as error
  fetched,      \* the fetches of the run that resolved
  fileAtStart,  \* the snapshot document as the run found it
  rolled        \* the merges of profile.ts so far: their number, and the schema_* log
                \* and creation date the first of them decoded

vars == <<file, now, pc, options, ignoredRepos, prevProf, githubUser, repos, langs,
          acts, currentProf, reported, fetched, fileAtStart, rolled>>

(* ------------------------------ decoding ------------------------------ *)

\* new MetaField(): the field initialisers
NewMetaField(date) ==
  [agent |-> "undefined", github_user |-> "undefined", github_repository |-> "undefined",
   ignored_repositories |-> <<>>,
   schema_version |-> Num(PROFILE_SCHEMA_VERSION),
   schema_created_at |-> date,
   schema_collected_ats |-> <<date>>]

\* a gate that turns away older documents only
VersionRejected_onlyOlder(profSchemaVersion) ==
  Null # profSchemaVersion /\ profSchemaVersion.num < PROFILE_SCHEMA_VERSION

\* the version gate of MetaField.OnDeserialized: TRUE when it calls
\* Util.reportMessageAndExit
VersionRejected(profSchemaVersion) ==
  Null # profSchemaVersion /\ profSchemaVersion # Num(PROFILE_SCHEMA_VERSION)

\* Util.reportMessageAndExit prints the message and ends the process
reportMessageAndExit(message) == [pc |-> "exited", reported |-> message]

\* MetaField.OnDeserialized past the version gate: the defaulting of the schema_* fields
MetaOnDeserialized(json, date) ==
  [agent |-> json.agent, github_user |-> json.github_user,
   github_repository |-> json.github_repository,
   ignored_repositories |-> json.ignored_repositories,
   schema_version |-> IF isEmptyScalar(json.schema_version)
                        THEN Num(PROFILE_SCHEMA_VERSION) ELSE json.schema_version,
   schema_created_at |-> IF json.schema_created_at = NoDate
                           THEN date ELSE json.schema_created_at,
   schema_collected_ats |-> IF json.schema_collected_ats = <<>>
                              THEN <<date>> ELSE json.schema_collected_ats]

\* Profile.deserialize of a document that passed the version gate
ProfileDeserialize(json, date) ==
  [exists |-> TRUE,
   meta |-> MetaOnDeserialized(json.meta, date),
   user |-> json.user, languages |-> json.languages,
   repositories |-> json.repositories,
   activities |-> json.activities]

\* writeJsonSync of a Profile: the document the file then holds
Serialize(prof) ==
  [exists |-> TRUE, meta |-> prof.meta, user |-> prof.user, languages |-> prof.languages,
   repositories |-> prof.repositories, activities |-> prof.activities]

(* ------------------------------ merge of part_000 ------------------------------ *)

\* the concatenation the other way round: previous before fresh
AllActs_prevFirst(currentActs, prevActs) ==
  SelectSeq(prevActs \o currentActs, LAMBDA a : ~isEmptyAct(a))

\* the concatenation without the filter
AllActs_noFilter(currentActs, prevActs) == currentActs \o prevActs

\* currentProf.activities.concat(prevProf.activities).filter(a => !_.isEmpty(a))
AllActs(currentActs, prevActs) ==
  SelectSeq(currentActs \o prevActs, LAMBDA a : ~isEmptyAct(a))

\* the loop when it never records the ids it has seen
RECURSIVE UniqLoop_noAdd(_, _, _, _)
UniqLoop_noAdd(allActs, i, uniqEventIds, uniqActs) ==
  IF i > Len(allActs) THEN uniqActs
  ELSE LET act == allActs[i] IN
       IF act.event_id \notin uniqEventIds
         THEN UniqLoop_noAdd(allActs, i + 1, uniqEventIds, Append(uniqActs, act))
         ELSE UniqLoop_noAdd(allActs, i + 1, uniqEventIds, uniqActs)

\* the loop over allActs from index i with the set uniqEventIds and the list uniqActs
RECURSIVE UniqLoop(_, _, _, _)
UniqLoop(allActs, i, uniqEventIds, uniqActs) ==
  IF i > Len(allActs) THEN uniqActs
  ELSE LET act == allActs[i] IN
       IF act.event_id \notin uniqEventIds
         THEN UniqLoop(allActs, i + 1, uniqEventIds \cup {act.event_id}, Append(uniqActs, act))
         ELSE UniqLoop(allActs, i + 1, uniqEventIds, uniqActs)

\* the activities COMMAND_PROFILE writes
UniqActs(currentActs, prevActs) == UniqLoop(AllActs(currentActs, prevActs), 1, {}, <<>>)

(* ------------------------------ a run starts ------------------------------ *)

\* a command is started when no other is running (single writer), MaxRuns times at most
CanStart ==
  /\ pc \in {"idle", "done", "failed", "exited", "crashed", "rejected",
             "init_done", "init_failed"}
  /\ now <= MaxRuns

\* the locals of a process that has fetched nothing yet
FreshLocals ==
  /\ githubUser' = NoDate /\ repos' = NoDate /\ langs' = NoDate /\ acts' = <<>>
  /\ fetched' = {} /\ currentProf' = NoProfile
  /\ fileAtStart' = file

\* readFileIfExist of a missing file throws out of the command: nothing is written
ReadMissingFile ==
  /\ CanStart /\ file = NoFile
  /\ now' = now + 1
  /\ pc' = "crashed" /\ reported' = "ENOENT"
  /\ FreshLocals /\ prevProf' = NoProfile
  /\ UNCHANGED <<file, options, ignoredRepos, rolled>>

\* Profile.deserialize of a document the version gate rejects
DecodeRejected ==
  /\ CanStart /\ file # NoFile
  /\ VersionRejected(file.meta.schema_version)
  /\ now' = now + 1
  /\ pc' = reportMessageAndExit("Invalid _$meta.schema_version").pc
  /\ reported' = reportMessageAndExit("Invalid _$meta.schema_version").reported
  /\ FreshLocals /\ prevProf' = NoProfile
  /\ UNCHANGED <<file, options, ignoredRepos, rolled>>

(* ------------------------------ the command of part_000 ------------------------------ *)

\* the option sets of the runs: --activity or not, with --language and --repository
\* given together or not at all
AllOptions ==
  {[language |-> lr, repository |-> lr, activity |-> a] : lr \in BOOLEAN, a \in BOOLEAN}

\* COMMAND_PROFILE up to the call of createProfile
CommandProfile(opts) ==
  /\ CanStart /\ file # NoFile
  /\ ~VersionRejected(file.meta.schema_version)
  /\ now' = now + 1
  /\ FreshLocals
  /\ prevProf' = ProfileDeserialize(file, now')
  /\ options' = opts
  /\ pc' = "getGithubUser" /\ reported' = "none"
  /\ UNCHANGED <<file, ignoredRepos, rolled>>

\* a rejected await: the promise of createProfile rejects
Rejected ==
  /\ pc' = "catch"
  /\ UNCHANGED <<file, now, options, ignoredRepos, prevProf, githubUser, repos, langs,
                 acts, currentProf, reported, fetched, fileAtStart, rolled>>

\* let githubUser = await GithubUtil.getGithubUser(token, user)
GetGithubUser ==
  /\ pc = "getGithubUser"
  /\ \/ /\ githubUser' = now /\ fetched' = fetched \cup {"user"}
        /\ pc' = "getUserRepositories"
        /\ UNCHANGED <<file, now, options, ignoredRepos, prevProf, repos, langs, acts,
                       currentProf, reported, fileAtStart, rolled>>
     \/ Rejected

\* if (options.repository) repos = await GithubUtil.getUserRepositories(token, user)
GetUserRepositories ==
  /\ pc = "getUserRepositories"
  /\ \/ /\ options.repository
        /\ repos' = now /\ fetched' = fetched \cup {"repos"}
        /\ pc' = "getUserLanguages"
        /\ UNCHANGED <<file, now, options, ignoredRepos, prevProf, githubUser, langs, acts,
                       currentProf, reported, fileAtStart, rolled>>
     \/ /\ options.repository
        /\ Rejected
     \/ /\ ~options.repository
        /\ pc' = "getUserLanguages"
        /\ UNCHANGED <<file, now, options, ignoredRepos, prevProf, githubUser, repos, langs,
                       acts, currentProf, reported, fetched, fileAtStart, rolled>>

\* if (options.language) langs = await GithubUtil.getUserLanguages(token, user)
GetUserLanguages ==
  /\ pc = "getUserLanguages"
  /\ \/ /\ options.language
        /\ langs' = now /\ fetched' = fetched \cup {"langs"}
        /\ pc' = "getUserActivities"
        /\ UNCHANGED <<file, now, options, ignoredRepos, prevProf, githubUser, repos, acts,
                       currentProf, reported, fileAtStart, rolled>>
     \/ /\ options.language
        /\ Rejected
     \/ /\ ~options.language
        /\ pc' = "getUserActivities"
        /\ UNCHANGED <<file, now, options, ignoredRepos, prevProf, githubUser, repos, langs,
                       acts, currentProf, reported, fetched, fileAtStart, rolled>>

\* if (options.activity) acts = await GithubUtil.getUserActivities(token, user)
GetUserActivities ==
  /\ pc = "getUserActivities"
  /\ \/ /\ options.activity
        /\ \E batch \in SeqUpTo(Events, MaxActs) : acts' = batch
        /\ fetched' = fetched \cup {"acts"}
        /\ pc' = "then"
        /\ UNCHANGED <<file, now, options, ignoredRepos, prevProf, githubUser, repos, langs,
                       currentProf, reported, fileAtStart, rolled>>
     \/ /\ options.activity
        /\ Rejected
     \/ /\ ~options.activity
        /\ pc' = "then"
        /\ UNCHANGED <<file, now, options, ignoredRepos, prevProf, githubUser, repos, langs,
                       acts, currentProf, reported, fetched, fileAtStart, rolled>>

\* the Profile the local createProfile returns: new Profile() with the fetched fields
CreatedProfile ==
  [exists |-> TRUE, meta |-> NewMetaField(now),
   user |-> githubUser, languages |-> langs, repositories |-> repos, activities |-> acts]

\* a handler that also runs when the promise rejected
Resolved_orRejected == pc \in {"then", "catch"}

\* the promise of createProfile resolved: the .then handler runs
Resolved == pc = "then"

\* .then(currentProf => ...): merge the activities and overwriteFile
Then ==
  /\ Resolved
  /\ currentProf' = [CreatedProfile EXCEPT
                       !.activities = UniqActs(CreatedProfile.activities, prevProf.activities)]
  /\ file' = Serialize(currentProf')
  /\ pc' = "done"
  /\ UNCHANGED <<now, options, ignoredRepos, prevProf, githubUser, repos, langs, acts,
                 reported, fetched, fileAtStart, rolled>>

\* .catch(err => ...): the error is printed
Catch ==
  /\ pc = "catch"
  /\ reported' = "Cannot create profile"
  /\ pc' = "failed"
  /\ UNCHANGED <<file, now, options, ignoredRepos, prevProf, githubUser, repos, langs, acts,
                 currentProf, fetched, fileAtStart, rolled>>

(* ------------------------------ the init command of part_000 ------------------------------ *)

\* the repository names init is called with
InitRepos == {"user/resume", "user/blog"}

\* PROFILE_TEMPLATE_JSON: a document with nothing synchronized yet
PROFILE_TEMPLATE_JSON ==
  [exists |-> TRUE,
   meta |-> [agent |-> "oh-my-github", github_user |-> "undefined",
             github_repository |-> "undefined", repository |-> "undefined",
             ignored_repositories |-> <<>>, schema_version |-> Null,
             schema_created_at |-> NoDate, schema_collected_ats |-> <<>>],
   user |-> NoDate, languages |-> NoDate, repositories |-> NoDate, activities |-> <<>>]

\* template = copy of PROFILE_TEMPLATE_JSON; template._$meta.repository = repo
Template(repo) == [PROFILE_TEMPLATE_JSON EXCEPT !.meta.repository = repo]

\* a write that replaces whatever the path holds (flag "w")
writeFileIfNotExist_overwrite(path, json) == [file |-> json, threw |-> FALSE]

\* writeFileIfNotExist: fse.writeJsonSync with flag "wx" writes when the path holds no
\* file and throws when it holds one
writeFileIfNotExist(path, json) ==
  IF path = NoFile THEN [file |-> json, threw |-> FALSE]
  ELSE [file |-> path, threw |-> TRUE]

\* COMMAND_INIT: write the template exclusively; a throw is caught and printed
CommandInit(repo) ==
  /\ CanStart
  /\ file' = writeFileIfNotExist(file, Template(repo)).file
  /\ IF writeFileIfNotExist(file, Template(repo)).threw
       THEN pc' = "init_failed" /\ reported' = "Cannot create file"
       ELSE pc' = "init_done" /\ reported' = "none"
  /\ FreshLocals /\ prevProf' = NoProfile
  /\ UNCHANGED <<now, options, ignoredRepos, rolled>>

(* ------------------------------ createProfile of profile.ts ------------------------------ *)

\* lodash _.union of two arrays: the values of a followed by b, each once, in the
\* order they first occur
RECURSIVE UniqueInOrder(_, _)
UniqueInOrder(s, seen) ==
  IF s = <<>> THEN <<>>
  ELSE IF Head(s) \in seen THEN UniqueInOrder(Tail(s), seen)
       ELSE <<Head(s)>> \o UniqueInOrder(Tail(s), seen \cup {Head(s)})

union(a, b) == UniqueInOrder(a \o b, {})

\* Util.copyObject: a copy that shares nothing with the object copied
copyObject(object) == object

\* updateMeta when it starts from the meta of the new profile instead of the previous one
updateMeta_fromCurrent(currentProfile, prevMeta) ==
  LET currentMeta == currentProfile.meta
      meta == copyObject(currentMeta)
  IN [currentProfile EXCEPT
        !.meta = [meta EXCEPT
                    !.schema_collected_ats = Append(prevMeta.schema_collected_ats, now),
                    !.ignored_repositories =
                       union(currentMeta.ignored_repositories, prevMeta.ignored_repositories)]]

\* updateMeta when it keeps the requested ignores only
updateMeta_requestedOnly(currentProfile, prevMeta) ==
  LET currentMeta == currentProfile.meta
      meta == copyObject(prevMeta)
  IN [currentProfile EXCEPT
        !.meta = [meta EXCEPT
                    !.schema_collected_ats = Append(meta.schema_collected_ats, now),
                    !.ignored_repositories = currentMeta.ignored_repositories]]

\* updateMeta when it restarts the log at the current date
updateMeta_restartLog(currentProfile, prevMeta) ==
  LET currentMeta == currentProfile.meta
      meta == copyObject(prevMeta)
  IN [currentProfile EXCEPT
        !.meta = [meta EXCEPT
                    !.schema_collected_ats = <<now>>,
                    !.ignored_repositories =
                       union(currentMeta.ignored_repositories, prevMeta.ignored_repositories)]]

\* updateMeta when it returns a new Profile that carries the rolled meta alone
updateMeta_metaOnly(currentProfile, prevMeta) ==
  LET currentMeta == currentProfile.meta
      meta == copyObject(prevMeta)
  IN [exists |-> TRUE,
      meta |-> [meta EXCEPT
                  !.schema_collected_ats = Append(meta.schema_collected_ats, now),
                  !.ignored_repositories =
                     union(currentMeta.ignored_repositories, prevMeta.ignored_repositories)],
      user |-> NoDate, languages |-> NoDate, repositories |-> NoDate, activities |-> <<>>]

\* Profile.updateMeta(currentProfile, prevMeta); MetaField.CURRENT_DATE is now
updateMeta(currentProfile, prevMeta) ==
  LET currentMeta == currentProfile.meta
      meta == copyObject(prevMeta)
  IN [currentProfile EXCEPT
        !.meta = [meta EXCEPT
                    !.schema_collected_ats = Append(meta.schema_collected_ats, now),
                    !.ignored_repositories =
                       union(currentMeta.ignored_repositories, prevMeta.ignored_repositories)]]

\* GithubEvent.mergeByEventId: fresh followed by previous, the first entry of each
\* event_id, the entries without event_id dropped
mergeByEventId(prevActs, currentActs) ==
  LET all == SelectSeq(currentActs \o prevActs,
                       LAMBDA a : ~isEmptyAct(a) /\ a.event_id # "undefined")
      first == {k \in 1..Len(all) : \A j \in 1..(k - 1) : all[j].event_id # all[k].event_id}
      kept == SelectSeq([k \in 1..Len(all) |-> k], LAMBDA k : k \in first)
  IN [i \in 1..Len(kept) |-> all[kept[i]]]

\* the lists of repositories a run may be asked to ignore
IgnoreRequests == SeqUpTo(Repos, MaxIgnores)

\* the caller reads and decodes the snapshot; createProfile up to its first await:
\* new Profile() with the requested ignores in its meta
SyncStart(ignored) ==
  /\ CanStart /\ file # NoFile
  /\ ~VersionRejected(file.meta.schema_version)
  /\ now' = now + 1
  /\ FreshLocals
  /\ prevProf' = ProfileDeserialize(file, now')
  /\ ignoredRepos' = ignored
  /\ pc' = "sync_getGithubUser" /\ reported' = "none"
  /\ UNCHANGED <<file, options, rolled>>

\* a rejected await of createProfile: the promise rejects, nothing is returned
SyncRejected ==
  /\ pc' = "rejected"
  /\ UNCHANGED <<file, now, options, ignoredRepos, prevProf, githubUser, repos, langs,
                 acts, currentProf, reported, fetched, fileAtStart, rolled>>

\* let githubUser = await GithubUtil.getGithubUser(token, user)
SyncGetGithubUser ==
  /\ pc = "sync_getGithubUser"
  /\ \/ /\ githubUser' = now /\ fetched' = fetched \cup {"user"}
        /\ pc' = "sync_getUserRepositories"
        /\ UNCHANGED <<file, now, options, ignoredRepos, prevProf, repos, langs, acts,
                       currentProf, reported, fileAtStart, rolled>>
     \/ SyncRejected

\* let repos = await GithubUtil.getUserRepositories(token, user)
SyncGetUserRepositories ==
  /\ pc = "sync_getUserRepositories"
  /\ \/ /\ repos' = now /\ fetched' = fetched \cup {"repos"}
        /\ pc' = "sync_getUserLanguages"
        /\ UNCHANGED <<file, now, options, ignoredRepos, prevProf, githubUser, langs, acts,
                       currentProf, reported, fileAtStart, rolled>>
     \/ SyncRejected

\* let langs = await GithubUtil.getUserLanguages(token, user, allIgnoredRepos)
SyncGetUserLanguages ==
  /\ pc = "sync_getUserLanguages"
  /\ \/ /\ langs' = now /\ fetched' = fetched \cup {"langs"}
        /\ pc' = "sync_getUserActivities"
        /\ UNCHANGED <<file, now, options, ignoredRepos, prevProf, githubUser, repos, acts,
                       currentProf, reported, fileAtStart, rolled>>
     \/ SyncRejected

\* the entries the activity fetch of createProfile returns: one payload per event_id,
\* two for "e1"
SyncEvents == {e \in Events : e.payload # "q" \/ e.event_id = "e1"}

\* let currentActs = await GithubUtil.getUserActivities(token, user)
SyncGetUserActivities ==
  /\ pc = "sync_getUserActivities"
  /\ \/ /\ \E batch \in SeqUpTo(SyncEvents, MaxActs) : acts' = batch
        /\ fetched' = fetched \cup {"acts"}
        /\ pc' = "sync_merge"
        /\ UNCHANGED <<file, now, options, ignoredRepos, prevProf, githubUser, repos, langs,
                       currentProf, reported, fileAtStart, rolled>>
     \/ SyncRejected

\* the new Profile() of createProfile with its fields assigned, before updateMeta
SyncFilledProfile ==
  [exists |-> TRUE,
   meta |-> [NewMetaField(now) EXCEPT !.ignored_repositories = ignoredRepos],
   user |-> githubUser, languages |-> langs, repositories |-> repos,
   activities |-> mergeByEventId(prevProf.activities, acts)]

\* the rest of createProfile: merge the activities, assign the fields, updateMeta, return
SyncMerge ==
  /\ pc = "sync_merge"
  /\ currentProf' = updateMeta(SyncFilledProfile, prevProf.meta)
  /\ pc' = "sync_returned"
  /\ UNCHANGED <<file, now, options, ignoredRepos, prevProf, githubUser, repos, langs, acts,
                 reported, fetched, fileAtStart, rolled>>

\* the caller overwrites the snapshot with the profile createProfile returned
SyncOverwrite ==
  /\ pc = "sync_returned"
  /\ file' = Serialize(currentProf)
  /\ rolled' = IF rolled.merges = 0
                 THEN [merges |-> 1,
                       collected_ats |-> prevProf.meta.schema_collected_ats,
                       created_at |-> prevProf.meta.schema_created_at]
                 ELSE [rolled EXCEPT !.merges = @ + 1]
  /\ pc' = "done"
  /\ UNCHANGED <<now, options, ignoredRepos, prevProf, githubUser, repos, langs, acts,
                 currentProf, reported, fetched, fileAtStart>>

(* ------------------------------ specification ------------------------------ *)

\* the _$meta of the documents a behaviour starts from: every schema_version, in a
\* document whose other schema_* fields are still empty or in one synchronized at date 1
InitMetas ==
  {[agent |-> "oh-my-github", github_user |-> "user", github_repository |-> "repo",
    ignored_repositories |-> t[1], schema_version |-> v,
    schema_created_at |-> t[2], schema_collected_ats |-> t[3]] :
     v \in RawVersions,
     t \in {<< <<>>, NoDate, <<>> >>, << <<"repoA">>, 1, <<1>> >>}}

\* the documents a behaviour starts from: no activity yet, or one
InitDocs ==
  {[exists |-> TRUE, meta |-> m, user |-> NoDate, languages |-> NoDate,
    repositories |-> NoDate, activities |-> a] :
     m \in InitMetas, a \in {<<>>, <<[event_id |-> "e1", payload |-> "p"]>>}}

Init ==
  /\ file \in InitDocs \cup {NoFile}
  /\ now = 1
  /\ pc = "idle"
  /\ options = [language |-> FALSE, repository |-> FALSE, activity |-> FALSE]
  /\ ignoredRepos = <<>>
  /\ prevProf = NoProfile /\ currentProf = NoProfile
  /\ githubUser = NoDate /\ repos = NoDate /\ langs = NoDate /\ acts = <<>>
  /\ reported = "none" /\ fetched = {}
  /\ fileAtStart = file
  /\ rolled = NotRolled

Next ==
  \/ ReadMissingFile
  \/ DecodeRejected
  \/ \E opts \in AllOptions : CommandProfile(opts)
  \/ GetGithubUser
  \/ GetUserRepositories
  \/ GetUserLanguages
  \/ GetUserActivities
  \/ Then
  \/ Catch
  \/ \E repo \in InitRepos : CommandInit(repo)

Spec == Init /\ [][Next]_vars

NextSync ==
  \/ ReadMissingFile
  \/ DecodeRejected
  \/ \E ignored \in IgnoreRequests : SyncStart(ignored)
  \/ SyncGetGithubUser
  \/ SyncGetUserRepositories
  \/ SyncGetUserLanguages
  \/ SyncGetUserActivities
  \/ SyncMerge
  \/ SyncOverwrite

SpecSync == Init /\ [][NextSync]_vars

(* ------------------------------ properties of the command ------------------------------ *)

\* the run is over and wrote its merge: fresh side, previous side, result
Merged == pc = "done" /\ currentProf # NoProfile /\ prevProf # NoProfile
FreshActs == acts
PrevActs == prevProf.activities
MergedActs == currentProf.activities

\* the positions of s that hold the first entry of their event_id among the entries
\* that have fields
FirstOccurrences(s) ==
  {k \in 1..Len(s) : /\ ~isEmptyAct(s[k])
                      /\ \A j \in 1..(k - 1) :
                           isEmptyAct(s[j]) \/ s[j].event_id # s[k].event_id}

\* the entries of s at the positions P, in the order of s
AtPositions(s, P) ==
  LET kept == SelectSeq([k \in 1..Len(s) |-> k], LAMBDA k : k \in P)
  IN [i \in 1..Len(kept) |-> s[kept[i]]]

\* the event_ids of the entries of s that have fields
IdsOf(s) == {s[k].event_id : k \in {j \in 1..Len(s) : ~isEmptyAct(s[j])}}

\* C1: the merged activities are the first occurrence of each event_id in fresh
\* followed by previous, in that order; no two merged entries share an event_id and
\* every event_id of fresh or previous occurs among them.
C1_FirstOccurrenceMerge ==
  Merged =>
    /\ MergedActs = AtPositions(FreshActs \o PrevActs, FirstOccurrences(FreshActs \o PrevActs))
    /\ \A i, j \in 1..Len(MergedActs) :
         i # j => MergedActs[i].event_id # MergedActs[j].event_id
    /\ IdsOf(FreshActs) \cup IdsOf(PrevActs) = IdsOf(MergedActs)

\* a merge of two non-empty sides that share an id and differ in another
C1_Witness ==
  /\ Merged
  /\ IdsOf(FreshActs) \cap IdsOf(PrevActs) # {}
  /\ IdsOf(PrevActs) \ IdsOf(FreshActs) # {}
  /\ Len(MergedActs) >= 2
  /\ Len(MergedActs) < Len(FreshActs \o PrevActs)

\* the first entry of s with fields and the event_id id
FirstWithId(s, id) ==
  s[CHOOSE k \in 1..Len(s) :
      /\ ~isEmptyAct(s[k]) /\ s[k].event_id = id
      /\ \A j \in 1..(k - 1) : isEmptyAct(s[j]) \/ s[j].event_id # id]

\* C2: for an event_id present in both the previous and the fresh activities, the
\* merged entry is the fresh copy, payload included.
C2_FreshCopyWins ==
  Merged =>
    \A id \in IdsOf(FreshActs) \cap IdsOf(PrevActs) :
      \A i \in 1..Len(MergedActs) :
        MergedActs[i].event_id = id => MergedActs[i] = FirstWithId(FreshActs, id)

\* a merge where the two copies of one event differ
C2_Witness ==
  /\ Merged
  /\ \E id \in IdsOf(FreshActs) \cap IdsOf(PrevActs) :
       /\ FirstWithId(FreshActs, id) # FirstWithId(PrevActs, id)
       /\ \E i \in 1..Len(MergedActs) : MergedActs[i] = FirstWithId(FreshActs, id)

Requested(opts) ==
  {"user"} \cup (IF opts.repository THEN {"repos"} ELSE {})
           \cup (IF opts.language THEN {"langs"} ELSE {})
           \cup (IF opts.activity THEN {"acts"} ELSE {})

\* C9: the snapshot file differs from what the run found only once every requested
\* fetch resolved and the merge was computed; after a failed fetch the error is
\* reported and the file is as the run found it.
C9_WriteOnlyAfterAllFetches ==
  /\ (file # fileAtStart /\ pc \notin {"init_done", "init_failed"}) =>
       /\ pc = "done"
       /\ Requested(options) \subseteq fetched
       /\ currentProf # NoProfile /\ file = Serialize(currentProf)
  /\ pc \in {"catch", "failed"} => file = fileAtStart /\ currentProf = NoProfile
  /\ pc = "failed" => reported = "Cannot create profile"

\* a run whose last fetch failed after others resolved
C9_Witness ==
  /\ pc = "failed" /\ reported = "Cannot create profile"
  /\ "acts" \in Requested(options) /\ fetched = Requested(options) \ {"acts"}
  /\ Cardinality(fetched) >= 2
  /\ file = fileAtStart /\ Len(file.activities) >= 1

\* C10: merging a snapshot with fresh activities identical to its own gives
\* activities with the same event_ids and the same number of entries.
C10_RemergeIdempotent ==
  (Merged /\ FreshActs = PrevActs) =>
    /\ Len(MergedActs) = Len(PrevActs)
    /\ IdsOf(MergedActs) = IdsOf(PrevActs)

\* a re-merge of a snapshot of two activities with itself
C10_Witness ==
  /\ Merged /\ FreshActs = PrevActs
  /\ Len(PrevActs) >= 2 /\ Len(MergedActs) = Len(PrevActs)

(* ------------------------------ properties of decoding ------------------------------ *)

\* a profile run has read the document fileAtStart
RunRead == now > 1 /\ fileAtStart # NoFile /\ pc \notin {"init_done", "init_failed"}

\* C4: decoding a document whose schema_version is present, non-empty and not the
\* supported version ends in the schema-version error: no profile is decoded and the
\* document is left as it is.
C4_VersionMismatchFails ==
  (/\ RunRead
   /\ fileAtStart.meta.schema_version.type \in {"number", "string"}
   /\ fileAtStart.meta.schema_version # EmptyStr
   /\ fileAtStart.meta.schema_version # Num(PROFILE_SCHEMA_VERSION))
  => /\ pc = "exited"
     /\ reported = "Invalid _$meta.schema_version"
     /\ prevProf = NoProfile /\ currentProf = NoProfile
     /\ file = fileAtStart

\* a run that read a document of schema_version 2
C4_Witness ==
  /\ RunRead /\ pc = "exited"
  /\ fileAtStart.meta.schema_version = Num(PROFILE_SCHEMA_VERSION + 1)

\* C5: decoding a document without schema_version succeeds and the decoded
\* schema_version is the supported version.
C5_AbsentVersionDefaults ==
  (RunRead /\ fileAtStart.meta.schema_version = Undefined)
  => /\ pc # "exited"
     /\ prevProf # NoProfile
     /\ prevProf.meta.schema_version = Num(PROFILE_SCHEMA_VERSION)

(* ------------------------------ properties of the meta roll-forward ------------------------------ *)

\* a run of createProfile (profile.ts) is over and its profile was written
Synced == pc = "done" /\ rolled.merges >= 1 /\ currentProf # NoProfile

\* C3: the ignored_repositories of the snapshot a merge wrote are, as a set, the
\* requested ignores together with those of the previous snapshot, hence a superset of
\* what the snapshot held before the merge.
C3_IgnoredUnionMonotone ==
  Synced =>
    /\ Range(file.meta.ignored_repositories) =
         Range(ignoredRepos) \cup Range(fileAtStart.meta.ignored_repositories)
    /\ Range(fileAtStart.meta.ignored_repositories) \subseteq
         Range(file.meta.ignored_repositories)
    /\ Cardinality(Range(file.meta.ignored_repositories)) =
         Len(file.meta.ignored_repositories)

\* the second merge of a snapshot adds a repository to the one the first kept
C3_Witness ==
  /\ Synced /\ rolled.merges >= 2
  /\ Range(fileAtStart.meta.ignored_repositories) # {}
  /\ Range(ignoredRepos) \ Range(fileAtStart.meta.ignored_repositories) # {}
  /\ Cardinality(Range(file.meta.ignored_repositories)) >= 2

\* C6: a merge writes the previous snapshot's schema_collected_ats with one timestamp
\* added at the end; after N merges the log holds the entries the first merge decoded,
\* in place, and N more.
C6_CollectedAtsAppendOne ==
  Synced =>
    /\ file.meta.schema_collected_ats = Append(prevProf.meta.schema_collected_ats, now)
    /\ fileAtStart.meta.schema_collected_ats # <<>> =>
         file.meta.schema_collected_ats = Append(fileAtStart.meta.schema_collected_ats, now)
    /\ Len(file.meta.schema_collected_ats) = Len(rolled.collected_ats) + rolled.merges
    /\ SubSeq(file.meta.schema_collected_ats, 1, Len(rolled.collected_ats)) =
         rolled.collected_ats

\* two merges of a snapshot that came with a log of one entry
C6_Witness ==
  /\ Synced /\ rolled.merges = 2
  /\ rolled.collected_ats = <<1>>
  /\ Len(file.meta.schema_collected_ats) = 3

\* C7: the schema_created_at of the snapshot a merge wrote is that of the previous
\* snapshot it was merged with, and after any number of merges still the one the
\* first merge found.
C7_CreatedAtKept ==
  Synced =>
    /\ file.meta.schema_created_at = prevProf.meta.schema_created_at
    /\ fileAtStart.meta.schema_created_at # NoDate =>
         file.meta.schema_created_at = fileAtStart.meta.schema_created_at
    /\ file.meta.schema_created_at = rolled.created_at

\* two merges, both later than the creation of the snapshot
C7_Witness ==
  /\ Synced /\ rolled.merges = 2
  /\ file.meta.schema_created_at = 1 /\ now > 2

(* ------------------------------ properties of init ------------------------------ *)

\* an init command is over
InitOver == pc \in {"init_done", "init_failed"}

\* C11: init writes the template exclusively: where a snapshot file exists the write
\* fails, the failure is reported and the file is as it was; where none exists the file
\* then holds the template with the repository given.
C11_InitWritesExclusively ==
  InitOver =>
    /\ fileAtStart # NoFile =>
         pc = "init_failed" /\ reported = "Cannot create file" /\ file = fileAtStart
    /\ fileAtStart = NoFile =>
         pc = "init_done" /\ reported = "none" /\ \E repo \in InitRepos : file = Template(repo)

\* init on a snapshot that a profile run wrote two activities into
C11_Witness ==
  /\ pc = "init_failed" /\ reported = "Cannot create file"
  /\ file = fileAtStart /\ file # NoFile
  /\ Len(file.activities) >= 2 /\ file.meta.schema_created_at > 1

(* ------------------------------ properties of updateMeta ------------------------------ *)

\* C12: updateMeta changes only the metadata: agent, github_user, github_repository,
\* schema_version and schema_created_at of the result are those of prevMeta, and user,
\* languages, repositories and activities are those the profile had before the call.
C12_UpdateMetaFrame ==
  (pc \in {"sync_returned", "done"} /\ currentProf # NoProfile /\ prevProf # NoProfile) =>
    /\ currentProf.meta.agent = prevProf.meta.agent
    /\ currentProf.meta.github_user = prevProf.meta.github_user
    /\ currentProf.meta.github_repository = prevProf.meta.github_repository
    /\ currentProf.meta.schema_version = prevProf.meta.schema_version
    /\ currentProf.meta.schema_created_at = prevProf.meta.schema_created_at
    /\ currentProf.user = SyncFilledProfile.user
    /\ currentProf.languages = SyncFilledProfile.languages
    /\ currentProf.repositories = SyncFilledProfile.repositories
    /\ currentProf.activities = SyncFilledProfile.activities

\* updateMeta on a filled profile whose own meta differs from prevMeta in every field
C12_Witness ==
  /\ pc = "sync_returned" /\ currentProf # NoProfile
  /\ prevProf.meta.agent # NewMetaField(now).agent
  /\ prevProf.meta.github_user # NewMetaField(now).github_user
  /\ prevProf.meta.schema_created_at # now
  /\ ignoredRepos # <<>> /\ prevProf.meta.ignored_repositories # <<>>
  /\ Len(currentProf.activities) >= 2 /\ currentProf.user = now

=============================================================================
